---- MODULE Spec2Model ----
(***************************************************************************)
(* Compound segmentation and reconciliation engine of the Wiktionary       *)
(* compound scraper (extract/base.py, class Extract), and the cleaning of  *)
(* its data files (clean.py).                                              *)
(*                                                                         *)
(* A Python str is modelled as a sequence of one-character strings, so     *)
(* that indexing, slicing, searching and replacing are computed as the     *)
(* Python code computes them.                                              *)
(***************************************************************************)
EXTENDS Integers, Sequences, FiniteSets, TLC

VARIABLES orth, compound, morphs, op, res, splits, declensions, log,
          frame, instance, pipes, files

vars == <<orth, compound, morphs, op, res, splits, declensions, log,
          frame, instance, pipes, files>>

\* the state of a call on a whole lemma: its candidate etymologies, its
\* declensions and what the call has evaluated or printed
lemma_vars == <<splits, declensions, log>>

\* the state of the runs that are followed step by step: the local
\* variables of a running reconcile_lemma, the attributes of the Extract
\* object, the pipelines of the words processed on it, and the data files
run_vars == <<frame, instance, pipes, files>>

(***************************************************************************)
(* Characters                                                              *)
(***************************************************************************)

\* the characters of DELIMITERS_P / CHAR_DELIM_P: '=', '+', '-', ' '
Delimiters == {"=", "+", "-", " "}

\* the characters of OPEN_DELIM_P: '-', ' '
OpenDelims == {"-", " "}

\* the characters of CLOSED_DELIM_P: '=', '+'
ClosedDelims == {"=", "+"}

\* str.lower() on one character
LowerChar(c) ==
    CASE c = "A" -> "a"
      [] c = "B" -> "b"
      [] c = "C" -> "c"
      [] OTHER -> c

\* the regular expression class \w on the characters of the model
IsWordChar(c) == c \notin Delimiters

(***************************************************************************)
(* Python str primitives                                                   *)
(***************************************************************************)

\* s[i:] with a 0-based index i
From(s, i) == SubSeq(s, i + 1, Len(s))

\* s[:i] with a 0-based index i
UpTo(s, i) == SubSeq(s, 1, i)

\* str.lower()
Lower(s) == [i \in 1..Len(s) |-> LowerChar(s[i])]

\* sub occurs in s at the 0-based index i
OccursAt(s, sub, i) ==
    /\ i >= 0
    /\ i + Len(sub) <= Len(s)
    /\ SubSeq(s, i + 1, i + Len(sub)) = sub

\* `sub in s`
Contains(s, sub) == \E i \in 0..Len(s) : OccursAt(s, sub, i)

\* str.find(sub): the lowest index at which sub occurs, or -1
Find(s, sub) ==
    IF Contains(s, sub)
    THEN CHOOSE i \in 0..Len(s) :
            /\ OccursAt(s, sub, i)
            /\ \A j \in 0..(i - 1) : ~OccursAt(s, sub, j)
    ELSE -1

\* str.rfind(sub): the highest index at which sub occurs, or -1
RFind(s, sub) ==
    IF Contains(s, sub)
    THEN CHOOSE i \in 0..Len(s) :
            /\ OccursAt(s, sub, i)
            /\ \A j \in (i + 1)..Len(s) : ~OccursAt(s, sub, j)
    ELSE -1

\* str.startswith(sub)
StartsWith(s, sub) == OccursAt(s, sub, 0)

\* str.endswith(sub)
EndsWith(s, sub) == Len(sub) <= Len(s) /\ OccursAt(s, sub, Len(s) - Len(sub))

\* str.count(c) for a one-character c
CountChar(s, c) == Cardinality({i \in 1..Len(s) : s[i] = c})

RECURSIVE ReplaceNonEmpty(_, _, _)
ReplaceNonEmpty(s, old, new) ==
    IF Len(s) < Len(old) THEN s
    ELSE IF StartsWith(s, old)
         THEN new \o ReplaceNonEmpty(From(s, Len(old)), old, new)
         ELSE <<Head(s)>> \o ReplaceNonEmpty(Tail(s), old, new)

RECURSIVE ReplaceEmpty(_, _)
ReplaceEmpty(s, new) ==
    IF s = <<>> THEN new
    ELSE new \o <<Head(s)>> \o ReplaceEmpty(Tail(s), new)

\* str.replace(old, new): every non-overlapping occurrence, left to right;
\* an empty `old` matches before every character and at the end
Replace(s, old, new) ==
    IF old = <<>> THEN ReplaceEmpty(s, new) ELSE ReplaceNonEmpty(s, old, new)

RECURSIVE Join(_)
\* ''.join(list)
Join(list) == IF list = <<>> THEN <<>> ELSE Head(list) \o Join(Tail(list))

(***************************************************************************)
(* Results and errors                                                      *)
(***************************************************************************)

\* a returned value
Ok(v) == [kind |-> "ok", val |-> v, msg |-> "", args |-> <<>>]

\* a raised exception of class `kind`, with its message and the strings
\* formatted into the message
Raise(k, m, a) == [kind |-> k, val |-> <<>>, msg |-> m, args |-> a]

\* no call has been made yet
NoResult == [kind |-> "none", val |-> <<>>, msg |-> "", args |-> <<>>]

\* class ExtractionError(Exception), class HiccupError(ExtractionError),
\* class SilentError(ExtractionError)
IsExtractionError(k) == k \in {"ExtractionError", "HiccupError", "SilentError"}

(***************************************************************************)
(* Static configuration (the grammar file of the language)                 *)
(***************************************************************************)

\* self.affixes: the section labels that mark a page as an affix
affixes == {"suffix", "prefix"}

\* self.interfixes: the morphs that are interfixes
interfixes == {<<"s">>}

\* the attributes of an Extract object that the engine reads: __init__ sets
\* them from the grammar file
Instance == [affixes |-> affixes, interfixes |-> interfixes]

\* no reconcile_lemma is running
NoFrame ==
    [pc |-> "idle", tokens |-> <<>>, k |-> 0, base |-> <<>>, comp |-> <<>>,
     split |-> <<>>, error |-> FALSE]

\* no step-by-step run and no data file
NoRun ==
    /\ frame = NoFrame
    /\ instance = Instance
    /\ pipes = <<>>
    /\ files = <<>>

(***************************************************************************)
(* basify and the delimiter patterns                                       *)
(***************************************************************************)

\* DELIMITERS_P.sub('', text).lower()
basify(text) == Lower(SelectSeq(text, LAMBDA c : c \notin Delimiters))

\* the length of the maximal run of characters of `chars` at the start of s
RECURSIVE RunLength(_, _)
RunLength(s, chars) ==
    IF s = <<>> \/ Head(s) \notin chars THEN 0
    ELSE 1 + RunLength(Tail(s), chars)

\* re.split on [=+]+ without the capturing group: the literal texts only
closed_delim_split_no_group(s) ==
    LET RECURSIVE lits(_)
        lits(t) ==
            LET lit == RunLength(t, {c \in {t[i] : i \in 1..Len(t)} : c \notin ClosedDelims})
            IN  IF lit = Len(t) THEN <<t>>
                ELSE <<UpTo(t, lit)>>
                        \o lits(From(t, lit + RunLength(From(t, lit), ClosedDelims)))
    IN  lits(s)

\* CLOSED_DELIM_P.split(compound): re.split on the capturing group ([=+]+)
\* returns the literal texts and the delimiter runs, alternating; a run at
\* the start or at the end of the string leaves an empty literal text there
RECURSIVE closed_delim_split(_)
closed_delim_split(s) ==
    LET lit == RunLength(s, {c \in {s[i] : i \in 1..Len(s)} : c \notin ClosedDelims})
    IN  IF lit = Len(s) THEN <<s>>
        ELSE LET run == RunLength(From(s, lit), ClosedDelims)
             IN  <<UpTo(s, lit), SubSeq(s, lit + 1, lit + run)>>
                     \o closed_delim_split(From(s, lit + run))

\* OPEN_DELIM_P.sub('=', morph): every run of '-' and ' ' becomes one '='
RECURSIVE open_delim_sub(_)
open_delim_sub(s) ==
    IF s = <<>> THEN <<>>
    ELSE IF Head(s) \in OpenDelims
         THEN <<"=">> \o open_delim_sub(From(s, RunLength(s, OpenDelims)))
         ELSE <<Head(s)>> \o open_delim_sub(Tail(s))

\* CHAR_DELIM_P.findall(text): one token per non-delimiter character, made
\* of that character and the run of delimiters that follows it; delimiters
\* before the first such character belong to no token
RECURSIVE char_delim_findall(_)
char_delim_findall(s) ==
    IF s = <<>> THEN <<>>
    ELSE IF Head(s) \in Delimiters THEN char_delim_findall(Tail(s))
    ELSE LET run == RunLength(Tail(s), Delimiters)
         IN  <<UpTo(s, 1 + run)>> \o char_delim_findall(From(s, 1 + run))

\* TOO_SHORT_P.search(text): (?:^|=|\+)\w{1,2}(?:$|=|\+) matches somewhere
too_short(s) ==
    \E i \in 1..Len(s) : \E n \in {1, 2} :
        /\ i = 1 \/ s[i - 1] \in ClosedDelims
        /\ i + n - 1 <= Len(s)
        /\ \A j \in i..(i + n - 1) : IsWordChar(s[j])
        /\ i + n - 1 = Len(s) \/ s[i + n] \in ClosedDelims

(***************************************************************************)
(* Reconciliation                                                          *)
(***************************************************************************)

\* the `while len(comp)` loop of reconcile_lemma: comp loses its last
\* character until it occurs in base; the result is the length at which
\* it occurs, or 0 when the loop runs out (the `else` of the loop)
RECURSIVE shrink(_, _)
shrink(base, comp) ==
    IF Len(comp) = 0 THEN 0
    ELSE IF Contains(base, comp) THEN Len(comp)
    ELSE shrink(base, UpTo(comp, Len(comp) - 1))

\* the `for comp in reversed(...)` loop of reconcile_lemma over the tokens
\* k, k-1, .., 1 with the remaining `base`; split holds the segments of
\* the tokens 1..k in the order of the pattern (split[::-1])
RECURSIVE reconcile_loop(_, _, _)
reconcile_loop(tokens, k, base) ==
    IF k = 0 THEN [error |-> FALSE, split |-> <<>>]
    ELSE LET comp == tokens[k]
         IN  IF Contains(<<"=", "+">>, comp)
             THEN LET rest == reconcile_loop(tokens, k - 1, base)
                  IN  [error |-> rest.error, split |-> rest.split \o <<comp>>]
             ELSE LET n == shrink(base, comp)
                  IN  IF n = 0 THEN [error |-> TRUE, split |-> <<>>]
                      ELSE LET i == RFind(base, UpTo(comp, n))
                               rest == reconcile_loop(tokens, k - 1, UpTo(base, i))
                           IN  [error |-> rest.error,
                                split |-> rest.split \o <<From(base, i)>>]

\* reconcile_lemma without the check of the outcome of its loop
reconcile_lemma_unchecked(lemma, pattern) ==
    LET tokens == closed_delim_split(pattern)
        loop == reconcile_loop(tokens, Len(tokens), lemma)
        split == Join(loop.split)
    IN  IF too_short(split)
        THEN Raise("ExtractionError", "Could not SAFELY reconcile",
                   <<lemma, pattern, split>>)
        ELSE Ok(split)

\* Extract.reconcile_lemma(lemma, compound)
reconcile_lemma(lemma, pattern) ==
    LET tokens == closed_delim_split(pattern)
        loop == reconcile_loop(tokens, Len(tokens), lemma)
        split == Join(loop.split)
    IN  IF loop.error \/ basify(split) # lemma
        THEN Raise("ExtractionError", "Could not reconcile", <<lemma, pattern>>)
        ELSE IF too_short(split)
        THEN Raise("ExtractionError", "Could not SAFELY reconcile",
                   <<lemma, pattern, split>>)
        ELSE Ok(split)

\* max(compound.rfind('='), compound.rfind('+'), 0)
last_marker(pattern) ==
    LET a == RFind(pattern, <<"=">>)
        b == RFind(pattern, <<"+">>)
        m == IF a > b THEN a ELSE b
    IN  IF m > 0 THEN m ELSE 0

\* reconcile_declension with the splice `compound[:i + 1] + declension` in
\* place of the replacement of the prefix
reconcile_declension_splice_all(declension, pattern) ==
    LET i == last_marker(pattern)
        prefix == UpTo(pattern, i + 1)
        basified_prefix == basify(prefix)
    IN  IF i # 0 /\ Contains(declension, basified_prefix)
        THEN Ok(prefix \o declension)
        ELSE LET r == reconcile_lemma(declension, pattern)
             IN  IF r.kind = "ok" THEN r
                 ELSE Raise("ExtractionError", "Could not reconcile declension",
                            <<declension, pattern>>)

\* Extract.reconcile_declension(declension, compound)
reconcile_declension(declension, pattern) ==
    LET i == last_marker(pattern)
        prefix == UpTo(pattern, i + 1)
        basified_prefix == basify(prefix)
    IN  IF i # 0 /\ Contains(declension, basified_prefix)
        THEN Ok(Replace(declension, basified_prefix, prefix))
        ELSE LET r == reconcile_lemma(declension, pattern)
             IN  IF r.kind = "ok" THEN r
                 ELSE Raise("ExtractionError", "Could not reconcile declension",
                            <<declension, pattern>>)

(***************************************************************************)
(* Delimiter preservation and verification                                 *)
(***************************************************************************)

\* preserve_delimiters that emits the token of the orthography for every
\* pair
preserve_delimiters_orth_only(o, c) ==
    LET orth_split == char_delim_findall(o)
        compound_split == char_delim_findall(c)
        n == IF Len(orth_split) < Len(compound_split)
             THEN Len(orth_split) ELSE Len(compound_split)
    IN  Join([j \in 1..n |-> orth_split[j]])

\* Extract.preserve_delimiters(orth, compound): zip() stops at the shorter
\* of the two token lists
preserve_delimiters(o, c) ==
    LET orth_split == char_delim_findall(o)
        compound_split == char_delim_findall(c)
        n == IF Len(orth_split) < Len(compound_split)
             THEN Len(orth_split) ELSE Len(compound_split)
    IN  Join([j \in 1..n |->
                IF Len(compound_split[j]) > Len(orth_split[j])
                THEN compound_split[j] ELSE orth_split[j]])

\* `' ' in text or '-' in text`
has_open_delim(text) == \E j \in 1..Len(text) : text[j] \in OpenDelims

\* Extract.split_declension(declension, compound)
split_declension(declension, pattern) ==
    LET goal == basify(declension)
        r == reconcile_declension(goal, pattern)
    IN  IF r.kind # "ok" THEN r
        ELSE IF has_open_delim(declension)
        THEN Ok(preserve_delimiters(declension, r.val))
        ELSE r

\* self.reconcile(goal, compound) in verify_compound: class Extract defines
\* reconcile_lemma and reconcile_declension but no attribute `reconcile`,
\* so the call raises AttributeError
reconcile(goal, pattern) ==
    Raise("AttributeError", "'Extract' object has no attribute 'reconcile'", <<>>)

\* verify_compound without the comparison of the stripped forms
verify_compound_unchecked(o, c) ==
    IF ~Contains(c, <<"=">>)
    THEN Raise("SilentError", "False alarm. Not a compound.", <<>>)
    ELSE IF has_open_delim(o) THEN Ok(preserve_delimiters(o, c)) ELSE Ok(c)

\* verify_compound that merges the delimiters of every orthography
verify_compound_always_preserve(o, c) ==
    IF ~Contains(c, <<"=">>)
    THEN Raise("SilentError", "False alarm. Not a compound.", <<>>)
    ELSE LET goal == basify(o)
             r == IF basify(c) # goal THEN reconcile(goal, c) ELSE Ok(c)
         IN  IF r.kind # "ok" THEN r ELSE Ok(preserve_delimiters(o, r.val))

\* Extract.verify_compound(orth, compound)
verify_compound(o, c) ==
    IF ~Contains(c, <<"=">>)
    THEN Raise("SilentError", "False alarm. Not a compound.", <<>>)
    ELSE LET goal == basify(o)
             r == IF basify(c) # goal THEN reconcile(goal, c) ELSE Ok(c)
         IN  IF r.kind # "ok" THEN r
             ELSE IF has_open_delim(o)
             THEN Ok(preserve_delimiters(o, r.val))
             ELSE r

(***************************************************************************)
(* Morpheme classification and compound assembly                           *)
(*                                                                         *)
(* A morph of an etymology is [text, failure, labels]: its text and the   *)
(* outcome of get_finnish_soup(url, lang) on its page: the exception the   *)
(* lookup raises ("HTTPError" from urlopen, "HiccupError" for 'No soup.')  *)
(* or, with failure "none", the sequence of the page's section labels.     *)
(***************************************************************************)

\* Extract.format_morpheme(morph, url, lang) of base.py, given the labels
\* of the page: <<formatted morph, is_affix>>
format_morpheme(morph, labels) ==
    IF \E j \in 1..Len(labels) : labels[j] \in affixes
    THEN <<morph, TRUE>>
    ELSE LET m0 == open_delim_sub(morph)
             m1 == IF StartsWith(m0, <<"=">>) THEN m0 ELSE <<"=">> \o m0
             m2 == IF EndsWith(m1, <<"=">>) THEN m1 ELSE m1 \o <<"=">>
         IN  <<m2, FALSE>>

\* the `for label in headers` loop of format_morpheme_incl_interfixes from
\* the label j on: the first label that is 'interfix' or an affix label
\* decides; "none" when the loop ends without a return
RECURSIVE first_label_decision(_, _)
first_label_decision(labels, j) ==
    IF j > Len(labels) THEN "none"
    ELSE IF labels[j] = "interfix" THEN "interfix"
    ELSE IF labels[j] \in affixes THEN "affix"
    ELSE first_label_decision(labels, j + 1)

\* Extract.format_morpheme_incl_interfixes(headers, morph) of extract.py
format_morpheme_incl_interfixes(labels, morph) ==
    LET d == first_label_decision(labels, 1)
        bare == Replace(morph, <<"-">>, <<>>)
    IN  IF d = "interfix" THEN <<<<"+">> \o bare \o <<"+">>, TRUE>>
        ELSE IF d = "affix" THEN <<morph, TRUE>>
        ELSE IF morph \in interfixes THEN <<<<"+">> \o bare \o <<"+">>, TRUE>>
        ELSE <<<<"=">> \o bare \o <<"=">>, FALSE>>

\* format_compound without `.replace('==', '=')`
format_compound_no_collapse(x) ==
    LET c1 == IF StartsWith(x, <<"=">>) THEN From(x, 1) ELSE x
        c2 == IF EndsWith(c1, <<"=">>) THEN UpTo(c1, Len(c1) - 1) ELSE c1
        r0 == Lower(c2)
        r1 == Replace(r0, <<"=", "+">>, <<"+">>)
        r2 == Replace(r1, <<"+", "=">>, <<"+">>)
        r4 == Replace(r2, <<"=", "-">>, <<>>)
        r5 == Replace(r4, <<"-", "=">>, <<>>)
    IN  Replace(r5, <<"-">>, <<>>)

\* Extract.format_compound(compound) of base.py
format_compound(x) ==
    LET c1 == IF StartsWith(x, <<"=">>) THEN From(x, 1) ELSE x
        c2 == IF EndsWith(c1, <<"=">>) THEN UpTo(c1, Len(c1) - 1) ELSE c1
        r0 == Lower(c2)
        r1 == Replace(r0, <<"=", "+">>, <<"+">>)
        r2 == Replace(r1, <<"+", "=">>, <<"+">>)
        r3 == Replace(r2, <<"=", "=">>, <<"=">>)
        r4 == Replace(r3, <<"=", "-">>, <<>>)
        r5 == Replace(r4, <<"-", "=">>, <<>>)
    IN  Replace(r5, <<"-">>, <<>>)

\* the `for i, (morph, url, lang) in enumerate(split)` loop of get_compound
\* over the morphs j..Len(split): the formatted morphs, the number of
\* affixes and the error that is left in `error` when the loop ends
RECURSIVE get_compound_loop(_, _, _, _, _)
get_compound_loop(split, j, done, n_affixes, error) ==
    IF j > Len(split) THEN [split |-> done, affixes |-> n_affixes, error |-> error]
    ELSE LET morph == split[j].text
             failure == split[j].failure
         IN  IF failure = "HTTPError"
             THEN get_compound_loop(split, j + 1, Append(done, morph), n_affixes,
                      Raise("HiccupError", "Could not verify due to invalid URL",
                            <<morph>>))
             ELSE IF failure = "HiccupError"
             THEN get_compound_loop(split, j + 1, Append(done, morph), n_affixes,
                      Raise("HiccupError", "No soup.", <<>>))
             ELSE LET f == format_morpheme(morph, split[j].labels)
                      bare == f[2] /\ ~Contains(f[1], <<"-">>)
                      m == IF bare THEN <<"-">> \o f[1] \o <<"-">> ELSE f[1]
                  IN  get_compound_loop(split, j + 1, Append(done, m),
                          n_affixes + (IF f[2] THEN 1 ELSE 0),
                          IF bare
                          THEN Raise("ExtractionError",
                                     "Affix not otherwise specified", <<m>>)
                          ELSE error)

\* get_compound that rejects a candidate for any error of its loop
get_compound_rejects_any_error(split) ==
    get_compound_loop(split, 1, <<>>, 0, NoResult).error.kind # "none"

\* `if error and affixes != len(split) - 1` of get_compound: the candidate
\* is rejected with the error of the loop before it is assembled
get_compound_rejects(split) ==
    LET loop == get_compound_loop(split, 1, <<>>, 0, NoResult)
    IN  loop.error.kind # "none" /\ loop.affixes # Len(split) - 1

\* self.format_compound(''.join(split)) of get_compound: the assembled
\* compound of a candidate
assembled(split) ==
    format_compound(Join(get_compound_loop(split, 1, <<>>, 0, NoResult).split))

\* Extract.get_compound(orth, split)
get_compound(o, split) ==
    IF get_compound_rejects(split)
    THEN get_compound_loop(split, 1, <<>>, 0, NoResult).error
    ELSE verify_compound(o, assembled(split))

(***************************************************************************)
(* Inputs                                                                  *)
(***************************************************************************)

\* the longest orthography / declension that is enumerated exhaustively
MaxOrth == 3

\* the longest lemma compound (pattern) that is enumerated exhaustively
MaxCompound == 3

\* every sequence over S of length at most n
SeqsUpTo(S, n) == UNION {[1..k -> S] : k \in 0..n}

\* orthographies of the examples of the specification and of words with
\* upper-case letters, spaces, hyphens and longer segments
ExampleOrths ==
    { <<"a","a","k","k","o","s","h","a","k","e","m","i","s","t","o">>,
      <<"a","a","l","t","o","m","a","i","s","u","u","s">>,
      <<"t","a","l","o","i","s","s","a">>,
      <<"t","a","l","o","t">>,
      <<"k","o","i","r","a","-","a","i","t","a">>,
      <<"K","o","i","r","a"," ","a","i","t","a">>,
      <<"a","b","a","a","b","b","b">>,
      <<"A","b","a","-","a","b","b","b">>,
      <<"a","b","a","s","b","b","a","a","b","a">>,
      <<"a","b","b","b","a","b","b","a","b","a">>,
      <<"a","a","a","b","b","b","b">> }

\* lemma compounds of the examples of the specification and of compounds
\* with interfix markers, marker runs and longer segments
ExampleCompounds ==
    { <<"a","a","k","k","o","s","=","h","a","k","e","m","i","s","t","o">>,
      <<"a","a","l","t","o","m","a","i","n","e","n","=","u","u","s">>,
      <<"t","a","l","o","=","s","t","a">>,
      <<"k","o","i","r","a","=","a","i","t","a">>,
      <<"a","b","a","b","=","b","b","b">>,
      <<"a","b","a","+","s","+","b","b","a","=","a","b","a">>,
      <<"a","b","b","+","=","b","b","b">>,
      <<"a","b","a","=","+","b","b","b">>,
      <<"a","b","a","=","b","a","b","=","a","b","a">>,
      <<"a","b","-","a","=","b","b","b">>,
      <<"a","a","a","=","b","b","b">>,
      <<"a","b","a","a","=","b","b","b">> }

\* the length of the segments of the two-segment compounds LongCompounds
MaxSeg == 3

\* two segments of MaxSeg letters around one marker: the shortest compounds
\* whose segments are all longer than the two characters of TOO_SHORT_P
LongCompounds ==
    { s1 \o <<m>> \o s2 : s1 \in [1..MaxSeg -> {"a", "b"}],
                          s2 \in [1..MaxSeg -> {"a", "b"}], m \in ClosedDelims }

\* the words over two letters that are as long as a compound of
\* LongCompounds without its marker, or one character shorter
LongOrths == [1..(2 * MaxSeg) -> {"a", "b"}] \cup [1..(2 * MaxSeg - 1) -> {"a", "b"}]

Orths ==
    SeqsUpTo({"a", "b", "-"}, MaxOrth) \cup SeqsUpTo({"a", "A", " "}, MaxOrth)
        \cup LongOrths \cup ExampleOrths

Compounds ==
    SeqsUpTo({"a", "b", "="}, MaxCompound) \cup SeqsUpTo({"a", "+", "-"}, MaxCompound)
        \cup LongCompounds \cup ExampleCompounds

(***************************************************************************)
(* The engine as a state machine: one call per behaviour.  The engine      *)
(* keeps no state between calls, so a state is the arguments of a call     *)
(* (orth, compound, morphs), the operation called and its outcome.         *)
(***************************************************************************)

Init ==
    /\ orth \in Orths
    /\ compound \in Compounds
    /\ morphs = <<>>
    /\ op = "init"
    /\ res = NoResult
    /\ splits = <<>>
    /\ declensions = <<>>
    /\ log = <<>>
    /\ NoRun

\* verify_compound(orth, compound)
VerifyCompound ==
    /\ op = "init"
    /\ op' = "verify_compound"
    /\ res' = verify_compound(orth, compound)
    /\ UNCHANGED <<orth, compound, morphs>>
    /\ UNCHANGED lemma_vars
    /\ UNCHANGED run_vars

\* reconcile_lemma(lemma, compound), with orth as the lemma
ReconcileLemma ==
    /\ op = "init"
    /\ op' = "reconcile_lemma"
    /\ res' = reconcile_lemma(orth, compound)
    /\ UNCHANGED <<orth, compound, morphs>>
    /\ UNCHANGED lemma_vars
    /\ UNCHANGED run_vars

\* reconcile_declension(goal, compound) as split_declension calls it, with
\* orth as the declension
ReconcileDeclension ==
    /\ op = "init"
    /\ op' = "reconcile_declension"
    /\ res' = reconcile_declension(basify(orth), compound)
    /\ UNCHANGED <<orth, compound, morphs>>
    /\ UNCHANGED lemma_vars
    /\ UNCHANGED run_vars

\* split_declension(declension, compound), with orth as the declension
SplitDeclension ==
    /\ op = "init"
    /\ op' = "split_declension"
    /\ res' = split_declension(orth, compound)
    /\ UNCHANGED <<orth, compound, morphs>>
    /\ UNCHANGED lemma_vars
    /\ UNCHANGED run_vars

\* preserve_delimiters(orth, compound)
PreserveDelimiters ==
    /\ op = "init"
    /\ op' = "preserve_delimiters"
    /\ res' = Ok(preserve_delimiters(orth, compound))
    /\ UNCHANGED <<orth, compound, morphs>>
    /\ UNCHANGED lemma_vars
    /\ UNCHANGED run_vars

Next ==
    \/ VerifyCompound
    \/ ReconcileLemma
    \/ ReconcileDeclension
    \/ SplitDeclension
    \/ PreserveDelimiters

Spec == Init /\ [][Next]_vars

(***************************************************************************)
(* Assembly of one candidate etymology                                     *)
(***************************************************************************)

\* the largest number of morphs in a candidate etymology
MaxMorphs == 3

\* texts that WORDS_P ([\w-]+) extracts from an etymology
MorphTexts == { <<"a">>, <<"B">>, <<"s">>, <<"-", "a">>, <<"-">> }

\* outcomes of the lookup of a morph's page
Lookups ==
    { [failure |-> "none", labels |-> <<"noun">>],
      [failure |-> "none", labels |-> <<"suffix">>],
      [failure |-> "HTTPError", labels |-> <<>>],
      [failure |-> "HiccupError", labels |-> <<>>] }

Morph(t, l) == [text |-> t, failure |-> l.failure, labels |-> l.labels]

Morphs == { Morph(t, l) : t \in MorphTexts, l \in Lookups }

Stem(t) == [text |-> t, failure |-> "none", labels |-> <<"noun">>]

\* Example A of the specification: the stems 'aakkos' and 'hakemisto'
ExampleA ==
    << Stem(<<"a","a","k","k","o","s">>),
       Stem(<<"h","a","k","e","m","i","s","t","o">>) >>

\* pages with up to two section labels, in either order
LabelLists ==
    { <<l>> : l \in {"interfix"} } \cup
    { <<l1, l2>> : l1, l2 \in {"noun", "suffix", "interfix"} }

\* candidates of one morph whose page has the labels of LabelLists
LabelledMorphs ==
    { <<[text |-> t, failure |-> "none", labels |-> ls]>> :
        t \in MorphTexts, ls \in LabelLists }

MorphLists == SeqsUpTo(Morphs, MaxMorphs) \cup {ExampleA} \cup LabelledMorphs

\* the texts of the morphs joined by sep
RECURSIVE JoinTexts(_, _)
JoinTexts(ms, sep) ==
    IF ms = <<>> THEN <<>>
    ELSE IF Len(ms) = 1 THEN ms[1].text
    ELSE ms[1].text \o sep \o JoinTexts(Tail(ms), sep)

\* orthographies for a candidate etymology: its morphs written together,
\* written with hyphens between them, and a word that is one letter longer
OrthsOf(ms) ==
    { JoinTexts(ms, <<>>), JoinTexts(ms, <<"-">>), JoinTexts(ms, <<>>) \o <<"b">> }

\* one morph as get_compound leaves it in split[i]: with incl, formatted
\* by format_morpheme_incl_interfixes as get_compound of extract.py does;
\* without, formatted by format_morpheme as get_compound of base.py does,
\* which puts hyphens around an affix that has none
formatted(m, incl) ==
    IF m.failure # "none" THEN m.text
    ELSE IF incl THEN format_morpheme_incl_interfixes(m.labels, m.text)[1]
    ELSE LET f == format_morpheme(m.text, m.labels)
         IN  IF f[2] /\ ~Contains(f[1], <<"-">>)
             THEN <<"-">> \o f[1] \o <<"-">> ELSE f[1]

InitAssemble ==
    /\ morphs \in MorphLists
    /\ orth \in OrthsOf(morphs)
    /\ compound = <<>>
    /\ op = "init"
    /\ res = NoResult
    /\ splits = <<>>
    /\ declensions = <<>>
    /\ log = <<>>
    /\ NoRun

\* format_compound(''.join(split)) on the formatted morphs
FormatCompound ==
    /\ op = "init"
    /\ \E incl \in BOOLEAN :
          compound' = Join([j \in 1..Len(morphs) |-> formatted(morphs[j], incl)])
    /\ op' = "format_compound"
    /\ res' = Ok(format_compound(compound'))
    /\ UNCHANGED <<orth, morphs>>
    /\ UNCHANGED lemma_vars
    /\ UNCHANGED run_vars

\* get_compound(orth, split); compound keeps the assembled compound that
\* is handed to verify_compound
GetCompound ==
    /\ op = "init"
    /\ op' = "get_compound"
    /\ res' = get_compound(orth, morphs)
    /\ compound' = IF get_compound_rejects(morphs) THEN <<>> ELSE assembled(morphs)
    /\ UNCHANGED <<orth, morphs>>
    /\ UNCHANGED lemma_vars
    /\ UNCHANGED run_vars

\* the 2-tuple that a morpheme formatter returns
Classified(f) ==
    [kind |-> "ok", val |-> f[1], msg |-> IF f[2] THEN "affix" ELSE "stem",
     args |-> <<>>]

\* the exception of get_finnish_soup(url, lang) for a morph whose lookup
\* fails: urlopen's error, or HiccupError('No soup.')
lookup_error(m) ==
    IF m.failure = "HTTPError" THEN Raise("HTTPError", "", <<>>)
    ELSE Raise("HiccupError", "No soup.", <<>>)

\* format_morpheme(morph, url, lang) of base.py on a candidate's only morph
FormatMorpheme ==
    /\ op = "init"
    /\ Len(morphs) = 1
    /\ op' = "format_morpheme"
    /\ res' = IF morphs[1].failure # "none" THEN lookup_error(morphs[1])
              ELSE Classified(format_morpheme(morphs[1].text, morphs[1].labels))
    /\ UNCHANGED <<orth, compound, morphs>>
    /\ UNCHANGED lemma_vars
    /\ UNCHANGED run_vars

\* format_morpheme_incl_interfixes(headers, morph) of extract.py on the
\* labels of a page that was found
FormatMorphemeInclInterfixes ==
    /\ op = "init"
    /\ Len(morphs) = 1
    /\ morphs[1].failure = "none"
    /\ op' = "format_morpheme_incl_interfixes"
    /\ res' = Classified(format_morpheme_incl_interfixes(morphs[1].labels,
                                                         morphs[1].text))
    /\ UNCHANGED <<orth, compound, morphs>>
    /\ UNCHANGED lemma_vars
    /\ UNCHANGED run_vars

NextAssemble ==
    \/ FormatCompound
    \/ GetCompound
    \/ FormatMorpheme
    \/ FormatMorphemeInclInterfixes

SpecAssemble == InitAssemble /\ [][NextAssemble]_vars

(***************************************************************************)
(* Properties                                                              *)
(***************************************************************************)

\* the boundary markers '=' and '+' of a string, in order
markers_of(s) == SelectSeq(s, LAMBDA c : c \in ClosedDelims)

\* reconcile_declension(declension, pattern) takes the `return
\* declension.replace(...)` of its fast path
takes_fast_path(declension, pattern) ==
    /\ last_marker(pattern) # 0
    /\ Contains(declension, basify(UpTo(pattern, last_marker(pattern) + 1)))

\* C1: every segmentation that verify_compound returns for a compound with
\* '=' strips to the stripped orthography, also after preserve_delimiters
\* has merged the delimiters of an orthography with a space or a hyphen.
C1_VerifyRoundTrip ==
    (op = "verify_compound" /\ res.kind = "ok")
        => /\ Contains(compound, <<"=">>)
           /\ basify(res.val) = basify(orth)

\* verify_compound returned a segmentation that preserve_delimiters changed
C1_Witness ==
    /\ op = "verify_compound"
    /\ res.kind = "ok"
    /\ has_open_delim(orth)
    /\ res.val # compound
    /\ Len(res.val) > Len(basify(orth))

\* C2: every segmentation that split_declension returns strips to the
\* stripped declension, on the fast path and on the fallback; a declension
\* that cannot be aligned ends in an ExtractionError and returns nothing.
C2_DeclensionRoundTrip ==
    op = "split_declension"
        => /\ res.kind \in {"ok", "ExtractionError"}
           /\ res.kind = "ok" => basify(res.val) = basify(orth)
           /\ res.kind = "ExtractionError" => res.val = <<>>

\* split_declension returned a segmentation from the fallback, for a
\* declension whose delimiters were merged back
C2_Witness ==
    /\ op = "split_declension"
    /\ res.kind = "ok"
    /\ ~takes_fast_path(basify(orth), compound)
    /\ has_open_delim(orth)

\* C3: a string returned by reconcile_lemma has the boundary markers of the
\* pattern, the same characters in the same order.
C3_MarkersKept ==
    (op = "reconcile_lemma" /\ res.kind = "ok")
        => markers_of(res.val) = markers_of(compound)

\* reconcile_lemma repaired a pattern with two boundaries
C3_Witness ==
    /\ op = "reconcile_lemma"
    /\ res.kind = "ok"
    /\ res.val # compound
    /\ Len(closed_delim_split(compound)) >= 5

\* a literal segment of one or two characters next to a boundary marker
has_short_segment(s) ==
    LET tokens == closed_delim_split(s)
    IN  /\ Len(tokens) > 1
        /\ \E k \in 1..Len(tokens) :
              /\ k % 2 = 1
              /\ Len(tokens[k]) \in {1, 2}

\* C4: no segmentation returned by verify_compound or by split_declension
\* has a segment of one or two characters next to a boundary marker.
C4_NoShortSegment ==
    (op \in {"verify_compound", "split_declension"} /\ res.kind = "ok")
        => ~has_short_segment(res.val)

\* C5: format_compound is idempotent on every concatenation of formatted
\* morphs: applying it to its own output changes nothing.
C5_Idempotent ==
    op = "format_compound" => format_compound(res.val) = res.val

\* the marker at the start of a formatted morph, or the empty string
open_marker(piece) ==
    IF piece # <<>> /\ Head(piece) \in Delimiters THEN <<Head(piece)>> ELSE <<>>

\* the marker at the end of a formatted morph, or the empty string
close_marker(piece) ==
    IF piece # <<>> /\ piece[Len(piece)] \in Delimiters
    THEN <<piece[Len(piece)]>> ELSE <<>>

\* what format_compound leaves of the markers that two formatted morphs
\* share at their boundary: '+' over '=', and nothing where an affix hyphen
\* is involved unless an interfix marker is
boundary_kept(pair) ==
    IF pair = <<"+", "+">> THEN pair
    ELSE IF "+" \in {pair[j] : j \in 1..Len(pair)} THEN <<"+">>
    ELSE IF "-" \in {pair[j] : j \in 1..Len(pair)} THEN <<>>
    ELSE IF pair = <<>> THEN <<>>
    ELSE <<"=">>

\* what the precedence interfix > stem > affix hyphen would leave there
boundary_by_precedence(pair) ==
    IF "+" \in {pair[j] : j \in 1..Len(pair)} THEN <<"+">>
    ELSE IF "=" \in {pair[j] : j \in 1..Len(pair)} THEN <<"=">>
    ELSE <<>>

\* a marker at the outer end of a compound that format_compound keeps
outer_kept(marker) == IF marker = <<"+">> THEN marker ELSE <<>>

\* the two morphs of the state as formatted for format_compound, when the
\* state is the outcome of format_compound on two morphs with a letter
two_pieces ==
    { pieces \in { <<formatted(morphs[1], incl), formatted(morphs[2], incl)>> :
                     incl \in BOOLEAN } :
        /\ compound = pieces[1] \o pieces[2]
        /\ basify(pieces[1]) # <<>>
        /\ basify(pieces[2]) # <<>> }

\* C6 as amended: at the boundary of two formatted morphs format_compound
\* keeps '+' for '=+' and '+=' and '=' for '==', removes a stem marker
\* together with the affix hyphen next to it, removes every hyphen, strips
\* a leading or trailing '=' but keeps a leading or trailing '+', and
\* returns lower case.
C6_BoundaryMarkers ==
    (op = "format_compound" /\ Len(morphs) = 2)
        => \A pieces \in two_pieces :
              res.val = outer_kept(open_marker(pieces[1])) \o basify(pieces[1])
                  \o boundary_kept(close_marker(pieces[1]) \o open_marker(pieces[2]))
                  \o basify(pieces[2]) \o outer_kept(close_marker(pieces[2]))

\* format_compound joined a stem and an affix with a hyphen
C6_Witness ==
    /\ op = "format_compound"
    /\ Len(morphs) = 2
    /\ \E pieces \in two_pieces :
          close_marker(pieces[1]) \o open_marker(pieces[2]) = <<"=", "-">>
    /\ res.val = <<"b", "a">>

\* C6 as stated: one marker is kept by the precedence interfix > stem >
\* affix hyphen, so that '=-' and '-=' leave '=', and a leading or trailing
\* marker of any kind is stripped.
C6_Precedence ==
    (op = "format_compound" /\ Len(morphs) = 2)
        => \A pieces \in two_pieces :
              res.val = basify(pieces[1])
                  \o boundary_by_precedence(close_marker(pieces[1]) \o open_marker(pieces[2]))
                  \o basify(pieces[2])

\* get_compound handed the assembled compound of the state to
\* verify_compound, its stripped form equals the stripped orthography and
\* the orthography has no space and no hyphen
no_repair_needed ==
    /\ op = "get_compound"
    /\ ~get_compound_rejects(morphs)
    /\ basify(compound) = basify(orth)
    /\ ~has_open_delim(orth)

\* C7 as amended: when the stripped assembled compound equals the stripped
\* orthography, the orthography has no space or hyphen and the compound
\* has a stem boundary '=', verify_compound returns the assembled compound
\* unchanged; the stems 'aakkos' and 'hakemisto' assemble to
\* 'aakkos=hakemisto', which is returned as is for 'aakkoshakemisto'.
C7_NoRepair ==
    /\ (no_repair_needed /\ Contains(compound, <<"=">>)) => res = Ok(compound)
    /\ (op = "get_compound" /\ morphs = ExampleA)
          => compound = <<"a","a","k","k","o","s","=","h","a","k","e","m","i","s","t","o">>
    /\ (op = "get_compound" /\ morphs = ExampleA
            /\ orth = <<"a","a","k","k","o","s","h","a","k","e","m","i","s","t","o">>)
          => res = Ok(compound)

\* Example A: get_compound returned 'aakkos=hakemisto' for 'aakkoshakemisto'
C7_Witness ==
    /\ no_repair_needed
    /\ morphs = ExampleA
    /\ res = Ok(<<"a","a","k","k","o","s","=","h","a","k","e","m","i","s","t","o">>)

\* C7 as stated: whenever the stripped assembled compound equals the
\* stripped orthography and the orthography has no space or hyphen,
\* verify_compound returns the assembled compound unchanged.
C7_AlwaysReturned ==
    (no_repair_needed /\ morphs # <<>>) => res = Ok(compound)

\* the text of the literal tokens 1..k of a split pattern, joined
RECURSIVE literal_text(_, _)
literal_text(tokens, k) ==
    IF k = 0 THEN <<>>
    ELSE literal_text(tokens, k - 1) \o (IF k % 2 = 1 THEN tokens[k] ELSE <<>>)

\* seg is what reconcile_lemma claims for the literal token t from the
\* remaining base: the tail of base from the right-most occurrence of the
\* longest prefix of t that occurs in base
claims_tail(t, base, seg) ==
    \E n \in 1..Len(t) :
        /\ EndsWith(base, seg)
        /\ StartsWith(seg, UpTo(t, n))
        /\ \A m \in (n + 1)..Len(t) : ~Contains(base, UpTo(t, m))
        /\ \A j \in (Len(base) - Len(seg) + 1)..Len(base) : ~OccursAt(base, UpTo(t, n), j)

\* C8: reconcile_lemma gives every literal token of the pattern, from right
\* to left, the whole tail of the remaining base from the right-most
\* occurrence of the longest prefix of the token that occurs in it, and
\* cuts the base there; 'aaltomainen=uus' against 'aaltomaisuus' yields
\* 'aaltomais=uus'.
C8_TailClaimed ==
    /\ (op = "reconcile_lemma" /\ res.kind = "ok")
          => LET tokens == closed_delim_split(compound)
                 segs == closed_delim_split(res.val)
             IN  /\ Len(segs) = Len(tokens)
                 /\ literal_text(segs, Len(segs)) = orth
                 /\ \A k \in 1..Len(tokens) :
                       IF k % 2 = 0 THEN segs[k] = tokens[k]
                       ELSE IF tokens[k] = <<>> THEN segs[k] = <<>>
                       ELSE claims_tail(tokens[k], literal_text(segs, k), segs[k])
    /\ (op = "reconcile_lemma"
            /\ orth = <<"a","a","l","t","o","m","a","i","s","u","u","s">>
            /\ compound = <<"a","a","l","t","o","m","a","i","n","e","n","=","u","u","s">>)
          => res = Ok(<<"a","a","l","t","o","m","a","i","s","=","u","u","s">>)

\* Example B: reconcile_lemma returned 'aaltomais=uus'
C8_Witness ==
    /\ op = "reconcile_lemma"
    /\ compound = <<"a","a","l","t","o","m","a","i","n","e","n","=","u","u","s">>
    /\ res = Ok(<<"a","a","l","t","o","m","a","i","s","=","u","u","s">>)

\* a lemma compound as the engine returns it: segments of letters with one
\* boundary marker between them
plain_compound(pattern) ==
    LET tokens == closed_delim_split(pattern)
    IN  /\ Len(tokens) >= 3
        /\ \A k \in 1..Len(tokens) :
              IF k % 2 = 1 THEN basify(tokens[k]) = tokens[k] /\ tokens[k] # <<>>
              ELSE Len(tokens[k]) = 1

\* the stripped text of the pattern up to and including its right-most
\* boundary marker is a literal prefix of the stripped declension
prefix_at_start(declension, pattern) ==
    /\ last_marker(pattern) # 0
    /\ StartsWith(declension, basify(UpTo(pattern, last_marker(pattern) + 1)))

\* C9: when the stripped text of the lemma compound up to its right-most
\* boundary marker is a literal prefix of the stripped declension,
\* reconcile_declension returns the compound up to and including that
\* marker followed by the rest of the declension, and nothing else.
C9_Splice ==
    (op = "reconcile_declension" /\ plain_compound(compound)
        /\ prefix_at_start(basify(orth), compound))
        => LET prefix == UpTo(compound, last_marker(compound) + 1)
           IN  res = Ok(prefix \o From(basify(orth), Len(basify(prefix))))

\* C10: reconcile_declension takes the fast path only when the stripped
\* prefix is a literal prefix of the stripped declension; in every other
\* case its outcome is that of reconcile_lemma on the stripped declension
\* and the lemma compound, a failure being an ExtractionError for the
\* declension.
C10_FallbackOtherwise ==
    (op = "reconcile_declension" /\ plain_compound(compound)
        /\ ~prefix_at_start(basify(orth), compound))
        => LET r == reconcile_lemma(basify(orth), compound)
           IN  res = IF r.kind = "ok" THEN r
                     ELSE Raise("ExtractionError", "Could not reconcile declension",
                                <<basify(orth), compound>>)

\* the run of delimiters of a token of CHAR_DELIM_P, after its character
run_of(token) == From(token, 1)

\* the two token lists that preserve_delimiters pairs have the same length
same_token_count == Len(char_delim_findall(orth)) = Len(char_delim_findall(compound))

\* C11: preserve_delimiters pairs the tokens of the orthography and of the
\* canonical form by position and emits for each pair the longer run of
\* delimiters; two runs of the same length leave the run of the canonical
\* form.
C11_LongerRunTieCanonical ==
    (op = "preserve_delimiters" /\ same_token_count)
        => LET o == char_delim_findall(orth)
               c == char_delim_findall(compound)
               r == char_delim_findall(res.val)
           IN  /\ Len(r) = Len(o)
               /\ \A k \in 1..Len(r) :
                     run_of(r[k]) = IF Len(run_of(c[k])) >= Len(run_of(o[k]))
                                    THEN run_of(c[k]) ELSE run_of(o[k])

\* C12: preserve_delimiters does not return when the token list of the
\* orthography and that of the canonical form differ in length.
C12_MismatchFails ==
    (op = "preserve_delimiters" /\ ~same_token_count) => res.kind # "ok"

\* the morphs of the candidate whose page lookup failed
failed_lookups(split) == { j \in 1..Len(split) : split[j].failure # "none" }

\* the morphs of the candidate whose page carries an affix label
affix_morphs(split) ==
    { j \in 1..Len(split) :
        /\ split[j].failure = "none"
        /\ \E k \in 1..Len(split[j].labels) : split[j].labels[k] \in affixes }

\* every morph of the candidate has a letter
worded(split) == \A j \in 1..Len(split) : basify(split[j].text) # <<>>

\* get_compound raised the error of its loop instead of assembling the
\* candidate: verify_compound raises neither of these two classes
rejected == op = "get_compound" /\ res.kind \in {"HiccupError", "ExtractionError"}

\* C13 as amended: a candidate in which exactly one morph's lookup failed
\* is assembled and verified exactly when all its other morphs are
\* classified as affixes; otherwise get_compound rejects it, as it does a
\* candidate of three morphs with one failed lookup and two stems.
C13_ToleratedAmongAffixes ==
    (op = "get_compound" /\ Cardinality(failed_lookups(morphs)) = 1)
        => (rejected <=> Cardinality(affix_morphs(morphs)) # Len(morphs) - 1)

\* a candidate of three morphs with one failed lookup and two affixes was
\* assembled and handed to verify_compound
C13_Witness ==
    /\ op = "get_compound"
    /\ Len(morphs) = 3
    /\ Cardinality(failed_lookups(morphs)) = 1
    /\ Cardinality(affix_morphs(morphs)) = 2
    /\ worded(morphs)
    /\ res.kind = "SilentError"
    /\ compound = assembled(morphs)

\* C13 as stated: a candidate in which exactly one morph's lookup failed is
\* not rejected, whatever the classification of its other morphs.
C13_OneFailureTolerated ==
    (op = "get_compound" /\ worded(morphs)
        /\ Cardinality(failed_lookups(morphs)) = 1) => ~rejected

\* the morphs of the candidate that leave an error in get_compound's loop
failing_morphs(split) ==
    { j \in 1..Len(split) :
        get_compound_loop(<<split[j]>>, 1, <<>>, 0, NoResult).error.kind # "none" }

\* the least element of a non-empty set of numbers
least(S) == CHOOSE j \in S : \A k \in S : j <= k

\* C14: when a candidate with two or more failing morphs is rejected, the
\* error raised is that of the first failing morph in morph order.
C14_FirstError ==
    (rejected /\ worded(morphs) /\ Cardinality(failing_morphs(morphs)) >= 2)
        => res = get_compound_loop(<<morphs[least(failing_morphs(morphs))]>>,
                                   1, <<>>, 0, NoResult).error

\* the classification of a morph by the rules in their order: an affix
\* label, then the interfix list, then stem; decided by the set of labels
by_rule_order(text, labels) ==
    IF {labels[k] : k \in 1..Len(labels)} \cap affixes # {}
    THEN [val |-> text, msg |-> "affix"]
    ELSE IF text \in interfixes
    THEN [val |-> <<"+">> \o text \o <<"+">>, msg |-> "affix"]
    ELSE [val |-> <<"=">> \o text \o <<"=">>, msg |-> "stem"]

\* C20: a morph with an affix label is returned as it is and marked affix;
\* otherwise a morph in the interfix list is formatted '+morph+' and marked
\* affix; otherwise it is formatted '=morph=' and marked stem, whatever the
\* order of the labels.
C20_RuleOrder ==
    (op \in {"format_morpheme", "format_morpheme_incl_interfixes"}
        /\ res.kind = "ok" /\ ~has_open_delim(morphs[1].text))
        => LET r == by_rule_order(morphs[1].text, morphs[1].labels)
           IN  res.val = r.val /\ res.msg = r.msg

(***************************************************************************)
(* The candidates and the declensions of one lemma                         *)
(***************************************************************************)

RECURSIVE get_compounds_loop(_, _, _, _, _, _)

\* the state of get_compounds' loop when it ends: the segmentations
\* appended, the first error kept, the exception that no except clause
\* caught and the outcomes of the calls of get_compound made
LoopEnd(compounds, error, abort, calls) ==
    [compounds |-> compounds, error |-> error, abort |-> abort, calls |-> calls]

\* the body of get_compounds' loop that puts a new segmentation before the
\* earlier ones
get_compounds_step_prepending(o, cands, j, compounds, error, calls, r) ==
    IF r.kind = "ok"
    THEN get_compounds_loop(o, cands, j + 1, <<r.val>> \o compounds, error,
                            Append(calls, r))
    ELSE IF r.kind = "SilentError"
    THEN get_compounds_loop(o, cands, j + 1, compounds, error, Append(calls, r))
    ELSE IF IsExtractionError(r.kind)
    THEN get_compounds_loop(o, cands, j + 1, compounds,
                            IF error.kind # "none" THEN error ELSE r,
                            Append(calls, r))
    ELSE LoopEnd(compounds, error, r, Append(calls, r))

\* the body of get_compounds' loop that keeps a SilentError like any other
\* ExtractionError
get_compounds_step_keeping_silent(o, cands, j, compounds, error, calls, r) ==
    IF r.kind = "ok"
    THEN get_compounds_loop(o, cands, j + 1, Append(compounds, r.val), error,
                            Append(calls, r))
    ELSE IF IsExtractionError(r.kind)
    THEN get_compounds_loop(o, cands, j + 1, compounds,
                            IF error.kind # "none" THEN error ELSE r,
                            Append(calls, r))
    ELSE LoopEnd(compounds, error, r, Append(calls, r))

\* the body of the `for split in self.parse_etymologies(orth, soup)` loop
\* of get_compounds for the candidate j, r being the outcome of
\* get_compound(orth, split): a value is appended, a SilentError skipped,
\* the first other ExtractionError kept; any other exception leaves the loop
get_compounds_step(o, cands, j, compounds, error, calls, r) ==
    IF r.kind = "ok"
    THEN get_compounds_loop(o, cands, j + 1, Append(compounds, r.val), error,
                            Append(calls, r))
    ELSE IF r.kind = "SilentError"
    THEN get_compounds_loop(o, cands, j + 1, compounds, error, Append(calls, r))
    ELSE IF IsExtractionError(r.kind)
    THEN get_compounds_loop(o, cands, j + 1, compounds,
                            IF error.kind # "none" THEN error ELSE r,
                            Append(calls, r))
    ELSE LoopEnd(compounds, error, r, Append(calls, r))

\* the loop of get_compounds from the candidate j on
get_compounds_loop(o, cands, j, compounds, error, calls) ==
    IF j > Len(cands) THEN LoopEnd(compounds, error, NoResult, calls)
    ELSE get_compounds_step(o, cands, j, compounds, error, calls,
                            get_compound(o, cands[j]))

\* what get_compounds does after its loop; `split` is the last candidate
get_compounds_end(o, cands, loop) ==
    IF loop.abort.kind # "none" THEN loop.abort
    ELSE IF loop.compounds # <<>> THEN Ok(loop.compounds)
    ELSE IF CountChar(o, " ") + CountChar(o, "-") # 0
            /\ (loop.error.kind = "none"
                \/ Len(cands[Len(cands)]) = CountChar(o, " ") + CountChar(o, "-") + 1)
    THEN Ok(<<Lower(o)>>)
    ELSE IF loop.error.kind # "none" THEN loop.error
    ELSE Ok(<<>>)

\* Extract.get_compounds(orth, soup), given the candidates that
\* parse_etymologies yields
get_compounds(o, cands) ==
    get_compounds_end(o, cands,
                      get_compounds_loop(o, cands, 1, <<>>, NoResult, <<>>))

\* print_annotation(orth, pos, compound): a printed line
Annotation(o, c) == [kind |-> "annotation", orth |-> o, out |-> Ok(c)]

\* print_annotation(orth, pos): a printed line without a segmentation
Bare(o) == [kind |-> "annotation", orth |-> o, out |-> NoResult]

\* print_error(orth, url, error): a printed error, under the lemma
ErrorLine(o, e) == [kind |-> "error", orth |-> o, out |-> e]

\* the line printed for the declension d, r being the outcome of
\* split_declension(d, compound)
declension_line(o, d, r) ==
    IF r.kind = "ok" THEN Annotation(d, r.val) ELSE ErrorLine(o, r)

\* the declension loop of extract that aligns every declension with the
\* segmentation left by the declension before it
RECURSIVE extract_declensions_carrying(_, _, _, _)
extract_declensions_carrying(o, decls, k, c) ==
    IF k > Len(decls) THEN <<>>
    ELSE LET r == split_declension(decls[k], c)
         IN  <<declension_line(o, decls[k], r)>>
                 \o extract_declensions_carrying(o, decls, k + 1,
                        IF r.kind = "ok" THEN r.val ELSE c)

\* the `for _orth in declensions` loop of extract for a closed compound,
\* from the declension k on: the lines printed
RECURSIVE extract_declensions(_, _, _, _)
extract_declensions(o, decls, k, c) ==
    IF k > Len(decls) THEN <<>>
    ELSE <<declension_line(o, decls[k], split_declension(decls[k], c))>>
             \o extract_declensions(o, decls, k + 1, c)

\* the body of `for compound in compounds` of extract for one compound
extract_compound(o, decls, c) ==
    <<Annotation(o \o <<"*">>, c)>> \o
        (IF ~Contains(c, <<"=">>) /\ ~Contains(c, <<"+">>)
         THEN [k \in 1..Len(decls) |-> Annotation(decls[k], Lower(decls[k]))]
         ELSE extract_declensions(o, decls, 1, c))

\* the `for compound in compounds` loop of extract
RECURSIVE extract_compounds(_, _, _)
extract_compounds(o, decls, compounds) ==
    IF compounds = <<>> THEN <<>>
    ELSE extract_compound(o, decls, Head(compounds))
             \o extract_compounds(o, decls, Tail(compounds))

\* what extract does with the outcome r of get_compounds(orth, soup): the
\* exception raised, or the lines printed
extract_end(o, decls, r) ==
    IF r.kind # "ok" THEN [res |-> r, lines |-> <<>>]
    ELSE IF r.val = <<>>
    THEN [res |-> Ok(<<>>),
          lines |-> <<Bare(o \o <<"*">>)>>
                        \o [k \in 1..Len(decls) |-> Bare(decls[k])]]
    ELSE [res |-> Ok(<<>>), lines |-> extract_compounds(o, decls, r.val)]

\* Extract.extract(orth, url), given the candidates and the declensions
\* found on the page
extract(o, cands, decls) == extract_end(o, decls, get_compounds(o, cands))

\* the largest number of candidate etymologies of a lemma
MaxSplits == 2

\* the largest number of declensions of a lemma
MaxDeclensions == 2

\* a morph whose page lookup fails with the exception f
Failed(t, f) == [text |-> t, failure |-> f, labels |-> <<>>]

\* candidate etymologies for the lemmas 'aab', 'a-ab', 'aba', 'A-ab': two
\* stems, no morph, a failed lookup beside a stem, a failed lookup beside
\* an affix, and stems in another order
Candidates ==
    { << Stem(<<"a">>), Stem(<<"a","b">>) >>,
      << Stem(<<"a","a">>), Stem(<<"b">>) >>,
      << >>,
      << Failed(<<"a">>, "HTTPError"), Stem(<<"a","b">>) >>,
      << Stem(<<"a","a">>), Failed(<<"b">>, "HiccupError") >>,
      << Stem(<<"a","b">>), Stem(<<"a">>) >>,
      << Failed(<<"a","a">>, "HTTPError"),
         [text |-> <<"-","b">>, failure |-> "none", labels |-> <<"suffix">>] >> }

\* the lemmas
LemmaOrths ==
    { <<"a","a","b">>, <<"a","-","a","b">>, <<"a","b","a">>, <<"A","-","a","b">> }

\* inflected forms on the pages of the lemmas
DeclensionForms ==
    { <<"a","a","b","s">>, <<"b","s">>, <<"A","-","a","b","s">> }

InitLemma ==
    /\ orth \in LemmaOrths
    /\ splits \in SeqsUpTo(Candidates, MaxSplits)
    /\ declensions \in SeqsUpTo(DeclensionForms, MaxDeclensions)
    /\ compound = <<>>
    /\ morphs = <<>>
    /\ op = "init"
    /\ res = NoResult
    /\ log = <<>>
    /\ NoRun

\* get_compounds(orth, soup); log keeps the outcomes of the calls of
\* get_compound that the loop made
GetCompounds ==
    /\ op = "init"
    /\ op' = "get_compounds"
    /\ \E loop \in {get_compounds_loop(orth, splits, 1, <<>>, NoResult, <<>>)} :
          /\ res' = get_compounds_end(orth, splits, loop)
          /\ log' = loop.calls
    /\ UNCHANGED <<orth, compound, morphs, splits, declensions>>
    /\ UNCHANGED run_vars

\* extract(orth, url); log keeps the lines printed
ExtractLemma ==
    /\ op = "init"
    /\ op' = "extract"
    /\ \E e \in {extract(orth, splits, declensions)} :
          /\ res' = e.res
          /\ log' = e.lines
    /\ UNCHANGED <<orth, compound, morphs, splits, declensions>>
    /\ UNCHANGED run_vars

NextLemma ==
    \/ GetCompounds
    \/ ExtractLemma

SpecLemma == InitLemma /\ [][NextLemma]_vars

\* the candidate is assembled and its assembled compound has no '='
unmarked(split) ==
    ~get_compound_rejects(split) /\ ~Contains(assembled(split), <<"=">>)

\* C15: a candidate whose assembled compound has no stem boundary '=', the
\* empty compound of an empty morph list included, ends in verify_compound's
\* SilentError; get_compounds goes on with the next candidate, keeps no
\* error for it and never raises it.
C15_SilentSkipped ==
    op = "get_compounds"
        => /\ \A j \in 1..Len(log) :
                 unmarked(splits[j])
                     => /\ log[j].kind = "SilentError"
                        /\ j < Len(splits) => Len(log) > j
           /\ res.kind # "SilentError"
           /\ (\A j \in 1..Len(splits) : unmarked(splits[j])) => res.kind = "ok"
           /\ (\A j \in 1..Len(log) : log[j].kind \in {"ok", "SilentError"})
                 => /\ res.kind = "ok"
                    /\ Len(res.val) >= Cardinality({j \in 1..Len(log) : log[j].kind = "ok"})

\* get_compounds skipped an empty morph list and returned the segmentation
\* of the candidate after it
C15_Witness ==
    /\ op = "get_compounds"
    /\ Len(splits) = 2
    /\ splits[1] = <<>>
    /\ log[1].kind = "SilentError"
    /\ log[2].kind = "ok"
    /\ res = Ok(<<log[2].val>>)

\* C16: a failure of one candidate or of one declension does not stop the
\* others: get_compounds calls get_compound for every candidate, and
\* extract prints one line for every declension under every segmentation.
C16_SiblingsProcessed ==
    /\ op = "get_compounds" => Len(log) = Len(splits)
    /\ (op = "extract" /\ get_compounds(orth, splits).kind = "ok"
            /\ get_compounds(orth, splits).val # <<>>)
          => Len(log) = Len(get_compounds(orth, splits).val) * (1 + Len(declensions))

\* C17: when a candidate fails with an error that is not silent,
\* get_compounds does not return a list of segmentations, which has no
\* place for the failure.
C17_FailuresReported ==
    (op = "get_compounds"
        /\ \E j \in 1..Len(log) : log[j].kind \in {"ExtractionError", "HiccupError"})
        => res.kind # "ok"

\* the segmentations of the candidates for which get_compound returns, each
\* candidate taken alone, in the order of the candidates
RECURSIVE successes(_, _)
successes(o, cands) ==
    IF cands = <<>> THEN <<>>
    ELSE (IF get_compound(o, Head(cands)).kind = "ok"
          THEN <<get_compound(o, Head(cands)).val>> ELSE <<>>)
             \o successes(o, Tail(cands))

closed(c) == Contains(c, <<"=">>) \/ Contains(c, <<"+">>)

\* the outcome printed for a declension: the segmentation, or the error
outcome_of(line) == line.out

\* C19: the outcome that extract prints for a declension under a lemma
\* segmentation is that of split_declension on that declension and that
\* segmentation alone, whatever the other declensions and their order.
C19_PerDeclension ==
    (op = "extract" /\ res.kind = "ok")
        => LET cs == get_compounds(orth, splits).val
               n == Len(declensions)
           IN  \A i \in 1..Len(cs) : \A k \in 1..n :
                   closed(cs[i])
                       => /\ Len(log) >= (i - 1) * (n + 1) + 1 + k
                          /\ outcome_of(log[(i - 1) * (n + 1) + 1 + k])
                                 = split_declension(declensions[k], cs[i])

\* extract printed an error for the first of two declensions and a
\* segmentation for the second
C19_Witness ==
    /\ op = "extract"
    /\ Len(declensions) = 2
    /\ Len(log) >= 3
    /\ closed(log[1].out.val)
    /\ log[2].kind = "error"
    /\ log[3].kind = "annotation"
    /\ closed(log[3].out.val)

\* the stripped assembled compound differs from the stripped orthography:
\* verify_compound takes its repair path
needs_repair == Contains(compound, <<"=">>) /\ basify(compound) # basify(orth)

\* C22: on its repair path verify_compound returns the segmentation that
\* reconcile_lemma makes of the stripped orthography, or fails with the
\* ExtractionError of reconcile_lemma; no other exception leaves it.
C22_RepairOrExtractionError ==
    (op = "verify_compound" /\ needs_repair)
        => LET r == reconcile_lemma(basify(orth), compound)
           IN  IF r.kind = "ok"
               THEN res.kind = "ok" /\ basify(res.val) = basify(orth)
               ELSE res = r

\* a token of the pattern that reconcile_lemma looks up in the base: every
\* token but '', '=', '+' and '=+'
literal(token) == ~Contains(<<"=", "+">>, token)

\* the loop of reconcile_lemma reaches a literal token none of whose
\* prefixes occurs in what is left of the base
token_fails ==
    LET tokens == closed_delim_split(compound)
    IN  reconcile_loop(tokens, Len(tokens), orth).error

\* a literal token whose first character occurs nowhere in the target: no
\* prefix of it occurs in any remaining base
absent_token ==
    LET tokens == closed_delim_split(compound)
    IN  \E k \in 1..Len(tokens) :
            literal(tokens[k]) /\ ~Contains(orth, UpTo(tokens[k], 1))

\* C23: when no prefix of some literal token occurs in the remaining base,
\* reconcile_lemma raises the ExtractionError that carries the target and
\* the pattern, and returns no segmentation.
C23_UnmatchedTokenRaises ==
    (op = "reconcile_lemma" /\ (token_fails \/ absent_token))
        => /\ res = Raise("ExtractionError", "Could not reconcile", <<orth, compound>>)
           /\ res.val = <<>>

\* the right-most token of a pattern is matched and a token to its left
\* finds nothing in what remains of a non-empty target
C23_Witness ==
    /\ op = "reconcile_lemma"
    /\ token_fails
    /\ plain_compound(compound)
    /\ LET tokens == closed_delim_split(compound)
       IN  /\ Len(tokens) = 3
           /\ literal(tokens[3])
           /\ Contains(orth, tokens[3])
    /\ res.kind = "ExtractionError"
    /\ res.args = <<orth, compound>>

\* a pattern of two segments of at least three letters whose texts end the
\* target, with a part of the target before them: the left-most token is
\* found in the remaining base at an index greater than 0
left_token_inside ==
    LET tokens == closed_delim_split(compound)
    IN  /\ Len(tokens) = 3
        /\ tokens[2] \in {<<"=">>, <<"+">>}
        /\ Len(tokens[1]) >= 3
        /\ Len(tokens[3]) >= 3
        /\ \A k \in {1, 3} : \A j \in 1..Len(tokens[k]) : IsWordChar(tokens[k][j])
        /\ EndsWith(orth, tokens[1] \o tokens[3])
        /\ Len(orth) > Len(tokens[1]) + Len(tokens[3])

\* C24: when the left-most literal token is found at an index greater than
\* 0, the part of the target before it goes into the left-most segment and
\* reconcile_lemma returns a segmentation with every character of the
\* target.
C24_PrefixAbsorbed ==
    (op = "reconcile_lemma" /\ left_token_inside)
        => res.kind = "ok" /\ basify(res.val) = basify(orth)

\* C25: a segmentation that split_declension returns for a lemma compound
\* (segments of letters with one boundary marker between them) has as many
\* boundary markers '=' and '+' as that compound, also when the stripped
\* prefix occurs more than once in the declension.
C25_MarkerCountKept ==
    (op = "split_declension" /\ plain_compound(compound) /\ res.kind = "ok")
        => Len(markers_of(res.val)) = Len(markers_of(compound))

\* C26: for an orthography and a canonical form with equal stripped forms,
\* the output of preserve_delimiters has a delimiter after its k-th
\* character exactly when the orthography or the canonical form has one
\* after its k-th character.
C26_DelimiterPositionsKept ==
    (op = "preserve_delimiters" /\ basify(orth) = basify(compound))
        => LET o == char_delim_findall(orth)
               c == char_delim_findall(compound)
               r == char_delim_findall(res.val)
           IN  /\ Len(r) = Len(o)
               /\ Len(r) = Len(c)
               /\ \A k \in 1..Len(r) :
                     run_of(r[k]) # <<>> <=> (run_of(o[k]) # <<>> \/ run_of(c[k]) # <<>>)

\* an orthography with a hyphen after one character and a canonical form
\* with a marker after another one: the output has both
C26_Witness ==
    /\ op = "preserve_delimiters"
    /\ basify(orth) = basify(compound)
    /\ res.kind = "ok"
    /\ LET o == char_delim_findall(orth)
           c == char_delim_findall(compound)
           r == char_delim_findall(res.val)
       IN  /\ \E k \in 1..Len(r) :
                 run_of(o[k]) # <<>> /\ run_of(c[k]) = <<>> /\ run_of(r[k]) = run_of(o[k])
           /\ \E k \in 1..Len(r) :
                 run_of(c[k]) # <<>> /\ run_of(o[k]) = <<>> /\ run_of(r[k]) = run_of(c[k])

\* C27: every segmentation that get_compounds returns is lower-case, also
\* for an orthography with upper-case letters and a space or hyphen, whose
\* segmentation goes through preserve_delimiters.
C27_LowerCase ==
    (op = "get_compounds" /\ res.kind = "ok")
        => \A i \in 1..Len(res.val) : res.val[i] = Lower(res.val[i])

\* the candidates whose error get_compounds' loop can record
recorded_errors == { j \in 1..Len(log) : log[j].kind \in {"ExtractionError", "HiccupError"} }

\* every candidate was evaluated and none gave a segmentation
no_segmentation ==
    /\ Len(log) = Len(splits)
    /\ \A j \in 1..Len(log) : IsExtractionError(log[j].kind)

\* orth.count(' ') + orth.count('-')
open_delim_count == CountChar(orth, " ") + CountChar(orth, "-")

\* C28: when no candidate gives a segmentation and an error was recorded,
\* get_compounds returns the lower-cased orthography as an open compound
\* if the orthography has a space or hyphen and the candidate of the first
\* recorded error has (number of spaces and hyphens) + 1 morphs, and
\* raises the recorded error otherwise; with no error recorded and a space
\* or hyphen it returns the lower-cased orthography as the only compound.
C28_OpenCompoundByErrorCandidate ==
    (op = "get_compounds" /\ no_segmentation)
        => IF recorded_errors # {}
           THEN LET j == least(recorded_errors)
                IN  IF open_delim_count # 0 /\ Len(splits[j]) = open_delim_count + 1
                    THEN res = Ok(<<Lower(orth)>>)
                    ELSE res = log[j]
           ELSE open_delim_count # 0 => res = Ok(<<Lower(orth)>>)

(***************************************************************************)
(* reconcile_lemma, one step of its loops at a time.  frame holds the      *)
(* local variables of the call: tokens[1..k] are the tokens that the       *)
(* `for comp in reversed(...)` loop has not visited, split is the list     *)
(* `split` in the order of its appends.                                    *)
(***************************************************************************)

\* targets and patterns of the calls that are followed step by step
ReconcileOrths == SeqsUpTo({"a", "b"}, MaxOrth) \cup ExampleOrths

ReconcileCompounds == SeqsUpTo({"a", "b", "="}, MaxCompound) \cup ExampleCompounds

InitReconcile ==
    /\ orth = <<>>
    /\ compound = <<>>
    /\ morphs = <<>>
    /\ op = "init"
    /\ res = NoResult
    /\ splits = <<>>
    /\ declensions = <<>>
    /\ log = <<>>
    /\ NoRun

\* comp[:-1] without the removal of the last character
not_shortened(comp) == comp

\* comp[:-1] in the `except ValueError` of the while loop
shortened(comp) == UpTo(comp, Len(comp) - 1)

\* split[::-1]
RECURSIVE Reverse(_)
Reverse(list) == IF list = <<>> THEN <<>> ELSE Reverse(Tail(list)) \o <<Head(list)>>

\* the call reconcile_lemma(lemma, compound), whose arguments become orth
\* and compound, and the two assignments before the for loop
ReconcileEnter ==
    /\ op = "init"
    /\ op' = "reconcile_lemma_steps"
    /\ \E lemma \in ReconcileOrths, pattern \in ReconcileCompounds :
          /\ orth' = lemma
          /\ compound' = pattern
          /\ frame' = [pc |-> "for", tokens |-> closed_delim_split(pattern),
                       k |-> Len(closed_delim_split(pattern)), base |-> lemma,
                       comp |-> <<>>, split |-> <<>>, error |-> FALSE]
    /\ UNCHANGED <<morphs, res, instance, pipes, files>>
    /\ UNCHANGED lemma_vars

\* the for loop takes its next token: a token that is `in '=+'` is
\* appended, any other token enters the while loop
ForNext ==
    /\ frame.pc = "for"
    /\ frame.k > 0
    /\ LET comp == frame.tokens[frame.k]
       IN  frame' = IF Contains(<<"=", "+">>, comp)
                    THEN [frame EXCEPT !.k = @ - 1, !.comp = comp,
                                       !.split = Append(@, comp)]
                    ELSE [frame EXCEPT !.k = @ - 1, !.comp = comp, !.pc = "while"]
    /\ UNCHANGED <<orth, compound, morphs, op, res, instance, pipes, files>>
    /\ UNCHANGED lemma_vars

\* the for loop has visited every token
ForEnd ==
    /\ frame.pc = "for"
    /\ frame.k = 0
    /\ frame' = [frame EXCEPT !.pc = "after"]
    /\ UNCHANGED <<orth, compound, morphs, op, res, instance, pipes, files>>
    /\ UNCHANGED lemma_vars

\* base.rindex(comp) finds comp: the segment is appended and the while
\* loop is left by `break`
WhileMatch ==
    /\ frame.pc = "while"
    /\ Len(frame.comp) > 0
    /\ Contains(frame.base, frame.comp)
    /\ LET i == RFind(frame.base, frame.comp)
       IN  frame' = [frame EXCEPT !.base = UpTo(frame.base, i),
                                  !.comp = From(frame.base, i),
                                  !.split = Append(@, From(frame.base, i)),
                                  !.pc = "for"]
    /\ UNCHANGED <<orth, compound, morphs, op, res, instance, pipes, files>>
    /\ UNCHANGED lemma_vars

\* base.rindex(comp) raises ValueError: comp loses its last character
WhileMiss ==
    /\ frame.pc = "while"
    /\ Len(frame.comp) > 0
    /\ ~Contains(frame.base, frame.comp)
    /\ frame' = [frame EXCEPT !.comp = shortened(@)]
    /\ UNCHANGED <<orth, compound, morphs, op, res, instance, pipes, files>>
    /\ UNCHANGED lemma_vars

\* the else clause of the while loop: comp is empty, the error is flagged
\* and the for loop is left by `break`
WhileElse ==
    /\ frame.pc = "while"
    /\ Len(frame.comp) = 0
    /\ frame' = [frame EXCEPT !.error = TRUE, !.pc = "after"]
    /\ UNCHANGED <<orth, compound, morphs, op, res, instance, pipes, files>>
    /\ UNCHANGED lemma_vars

\* the statements after the loops: the join, the two checks and the return
ReconcileLeave ==
    /\ frame.pc = "after"
    /\ LET split == Join(Reverse(frame.split))
       IN  res' = IF frame.error \/ basify(split) # orth
                  THEN Raise("ExtractionError", "Could not reconcile",
                             <<orth, compound>>)
                  ELSE IF too_short(split)
                  THEN Raise("ExtractionError", "Could not SAFELY reconcile",
                             <<orth, compound, split>>)
                  ELSE Ok(split)
    /\ frame' = [frame EXCEPT !.pc = "done"]
    /\ UNCHANGED <<orth, compound, morphs, op, instance, pipes, files>>
    /\ UNCHANGED lemma_vars

NextReconcile ==
    \/ ReconcileEnter
    \/ ForNext
    \/ ForEnd
    \/ WhileMatch
    \/ WhileMiss
    \/ WhileElse
    \/ ReconcileLeave

SpecReconcile == InitReconcile /\ [][NextReconcile]_vars

\* the call runs on one thread that nothing suspends: a statement that can
\* be executed is executed
SpecReconcileFair == SpecReconcile /\ WF_vars(NextReconcile)

\* the call has ended, in a returned segmentation or in an ExtractionError
reconcile_ended ==
    /\ frame.pc = "done"
    /\ res.kind \in {"ok", "ExtractionError"}
    /\ res = reconcile_lemma(orth, compound)

\* a step of the while loop leaves the loop or shortens comp by one
\* character, and a step of the for loop takes the next token, once
loop_progress ==
    /\ frame.pc = "while"
          => \/ frame'.pc \in {"for", "after"}
             \/ /\ frame'.pc = "while"
                /\ Len(frame'.comp) = Len(frame.comp) - 1
                /\ frame'.k = frame.k
    /\ (frame.pc = "for" /\ frame.k > 0) => frame'.k = frame.k - 1
    /\ frame.pc # "idle" => frame'.k <= frame.k

\* C29: reconcile_lemma terminates for every target and pattern: a step of
\* the shrink loop matches and leaves the loop or shortens the candidate by
\* one character, every token is visited once, and every call ends in a
\* returned segmentation or in a raised ExtractionError.
C29_Terminates == [][loop_progress]_vars /\ <>reconcile_ended

\* a call that ended in a segmentation after the while loop had shortened
\* a token
C29_Witness ==
    /\ reconcile_ended
    /\ res.kind = "ok"
    /\ plain_compound(compound)
    /\ \E k \in 1..Len(frame.tokens) :
          /\ ~Contains(<<"=", "+">>, frame.tokens[k])
          /\ ~Contains(orth, frame.tokens[k])

(***************************************************************************)
(* Two words processed on one Extract object.  A pipeline is the run of    *)
(* extract for one word, followed call by call: one step for each          *)
(* candidate of get_compounds' loop (a call of get_compound), one for the  *)
(* end of get_compounds, one for each segmentation of extract's loop (the  *)
(* calls of split_declension for it).  A pipeline holds the local          *)
(* variables of its run; instance holds the attributes of the object,      *)
(* which the two runs share.                                               *)
(***************************************************************************)

\* a pipeline before its first step
start(word) ==
    [orth |-> word.orth, cands |-> word.cands, decls |-> word.decls,
     pc |-> "candidates", j |-> 1, compounds |-> <<>>, error |-> NoResult,
     res |-> NoResult, i |-> 1, lines |-> <<>>, steps |-> 0]

\* the value of the attribute `name` of the object, None when it has none
attribute(inst, name) == IF name \in DOMAIN inst THEN inst[name] ELSE NoResult

\* the object after `self.<name> = value`
with_attribute(inst, name, value) ==
    [a \in DOMAIN inst \cup {name} |-> IF a = name THEN value ELSE inst[a]]

\* one iteration of get_compounds' loop, loop being the state of the loop
\* after the call of get_compound for the candidate j
candidate_step(inst, p, loop) ==
    [inst |-> inst,
     pipe |-> IF loop.abort.kind # "none"
              THEN [p EXCEPT !.res = loop.abort, !.pc = "done", !.steps = @ + 1]
              ELSE [p EXCEPT !.compounds = loop.compounds, !.error = loop.error,
                             !.j = @ + 1, !.steps = @ + 1]]

\* the statements of get_compounds after its loop, r being its outcome
compounds_step(inst, p, r) ==
    [inst |-> inst,
     pipe |-> [p EXCEPT !.res = r, !.steps = @ + 1,
                        !.pc = IF r.kind = "ok" THEN "compounds" ELSE "done"]]

\* one iteration of `for compound in compounds` of extract, or the lines
\* of a word without segmentation
lines_step(inst, p) ==
    [inst |-> inst,
     pipe |-> IF p.res.val = <<>>
              THEN [p EXCEPT !.lines = extract_end(p.orth, p.decls, p.res).lines,
                             !.pc = "done", !.steps = @ + 1]
              ELSE [p EXCEPT !.lines = @ \o extract_compound(p.orth, p.decls,
                                                             p.res.val[p.i]),
                             !.i = @ + 1, !.steps = @ + 1,
                             !.pc = IF p.i = Len(p.res.val) THEN "done"
                                    ELSE "compounds"]]

\* a step of a pipeline whose get_compounds keeps its first error in an
\* attribute of the object instead of a local variable
pipeline_step_error_on_instance(inst, p) ==
    IF p.pc = "candidates" /\ p.j <= Len(p.cands)
    THEN LET s == candidate_step(inst, p,
                      get_compounds_loop(p.orth, <<p.cands[p.j]>>, 1, p.compounds,
                                         attribute(inst, "error"), <<>>))
         IN  [inst |-> with_attribute(inst, "error", s.pipe.error), pipe |-> s.pipe]
    ELSE IF p.pc = "candidates"
    THEN compounds_step(inst, p,
             get_compounds_end(p.orth, p.cands,
                 LoopEnd(p.compounds, attribute(inst, "error"), NoResult, <<>>)))
    ELSE lines_step(inst, p)

\* a step of the pipeline p on the object inst: the object and the
\* pipeline after it
pipeline_step(inst, p) ==
    IF p.pc = "candidates" /\ p.j <= Len(p.cands)
    THEN candidate_step(inst, p,
             get_compounds_loop(p.orth, <<p.cands[p.j]>>, 1, p.compounds,
                                p.error, <<>>))
    ELSE IF p.pc = "candidates"
    THEN compounds_step(inst, p,
             get_compounds_end(p.orth, p.cands,
                 LoopEnd(p.compounds, p.error, NoResult, <<>>)))
    ELSE lines_step(inst, p)

\* candidate etymologies of the first word and of the second word
FirstCandidates ==
    { << Stem(<<"a">>), Stem(<<"a","b">>) >>,
      << Failed(<<"a">>, "HTTPError"), Stem(<<"a","b">>) >>,
      << >> }

SecondCandidates ==
    { << Stem(<<"a","b">>), Stem(<<"a">>) >>,
      << Stem(<<"a","a">>), Failed(<<"b">>, "HiccupError") >> }

\* a word: its orthography, the candidates and the declensions of its page
Word(o, c, d) == [orth |-> o, cands |-> c, decls |-> d]

FirstWords ==
    { Word(o, c, d) : o \in { <<"a","a","b">>, <<"a","-","a","b">> },
                      c \in SeqsUpTo(FirstCandidates, MaxSplits),
                      d \in { <<>>, << <<"a","a","b","s">> >> } }

SecondWords ==
    { Word(o, c, d) : o \in { <<"a","b","a">>, <<"A","-","a","b">> },
                      c \in SeqsUpTo(SecondCandidates, MaxSplits),
                      d \in { << <<"b","s">> >> } }

InitParallel ==
    /\ pipes \in { <<start(w1), start(w2)>> : w1 \in FirstWords, w2 \in SecondWords }
    /\ instance = Instance
    /\ frame = NoFrame
    /\ files = <<>>
    /\ orth = <<>>
    /\ compound = <<>>
    /\ morphs = <<>>
    /\ op = "init"
    /\ res = NoResult
    /\ splits = <<>>
    /\ declensions = <<>>
    /\ log = <<>>

\* the pipeline w makes its next call on the shared object
PipelineStep(w) ==
    /\ pipes[w].pc # "done"
    /\ \E s \in {pipeline_step(instance, pipes[w])} :
          /\ instance' = s.inst
          /\ pipes' = [pipes EXCEPT ![w] = s.pipe]
    /\ op' = "pipelines"
    /\ UNCHANGED <<orth, compound, morphs, res, frame, files>>
    /\ UNCHANGED lemma_vars

StepFirst == PipelineStep(1)

StepSecond == PipelineStep(2)

NextParallel ==
    \/ StepFirst
    \/ StepSecond

SpecParallel == InitParallel /\ [][NextParallel]_vars

\* the pipeline of a word after n steps on an object of its own
RECURSIVE alone(_, _)
alone(word, n) ==
    IF n = 0 THEN start(word) ELSE pipeline_step(Instance, alone(word, n - 1)).pipe

\* the outcome of a finished pipeline is that of extract for its word
as_extract(p) ==
    \E e \in {extract(p.orth, p.cands, p.decls)} :
        IF e.res.kind # "ok" THEN p.res = e.res /\ p.lines = <<>>
        ELSE p.res = get_compounds(p.orth, p.cands) /\ p.lines = e.lines

\* C21: the engine operations write no attribute of the Extract object, and
\* in every interleaving of the pipelines of two words on one object each
\* pipeline is, after each of its steps, where it is when it runs alone,
\* and ends in the same segmentations, lines and failures.
C21_NoInterference ==
    /\ instance = Instance
    /\ \A w \in DOMAIN pipes :
          /\ pipes[w] = alone(Word(pipes[w].orth, pipes[w].cands, pipes[w].decls),
                              pipes[w].steps)
          /\ pipes[w].pc = "done" => as_extract(pipes[w])

\* both pipelines are under way: the first has recorded the error of a
\* candidate and has candidates left, the second has returned a
\* segmentation and has not printed its lines
C21_Witness ==
    /\ op = "pipelines"
    /\ pipes[1].pc = "candidates"
    /\ pipes[1].error.kind = "HiccupError"
    /\ pipes[1].j <= Len(pipes[1].cands)
    /\ pipes[2].pc = "compounds"
    /\ pipes[2].res.kind = "ok"
    /\ pipes[2].res.val # <<>>
    /\ pipes[2].lines = <<>>

(***************************************************************************)
(* clean_data of clean.py.  A file is the list of its lines, as readlines  *)
(* returns them: every line ends with its newline.                         *)
(***************************************************************************)

\* ord(c) of the characters of the data files
CharCode(c) ==
    CASE c = "\n" -> 10
      [] c = " " -> 32
      [] c = ";" -> 59
      [] c = "=" -> 61
      [] c = "N" -> 78
      [] c = "a" -> 97
      [] c = "b" -> 98

\* s < t for two str
RECURSIVE Less(_, _)
Less(s, t) ==
    IF t = <<>> THEN FALSE
    ELSE IF s = <<>> THEN TRUE
    ELSE IF Head(s) # Head(t) THEN CharCode(Head(s)) < CharCode(Head(t))
    ELSE Less(Tail(s), Tail(t))

\* sorted(list(S)) for a set S of str
RECURSIVE sorted(_)
sorted(S) ==
    IF S = {} THEN <<>>
    ELSE LET least_line == CHOOSE x \in S : \A y \in S : x = y \/ Less(x, y)
         IN  <<least_line>> \o sorted(S \ {least_line})

\* s.count(sub) for a non-empty sub
RECURSIVE count(_, _)
count(s, sub) ==
    IF Len(s) < Len(sub) THEN 0
    ELSE IF StartsWith(s, sub) THEN 1 + count(From(s, Len(sub)), sub)
    ELSE count(Tail(s), sub)

\* s.split(sep) for a non-empty sep, cur being the part that is being read
RECURSIVE str_split(_, _, _)
str_split(s, sep, cur) ==
    IF s = <<>> THEN <<cur>>
    ELSE IF StartsWith(s, sep) THEN <<cur>> \o str_split(From(s, Len(sep)), sep, <<>>)
    ELSE str_split(Tail(s), sep, Append(cur, Head(s)))

\* sep.join(list)
RECURSIVE join_with(_, _)
join_with(sep, list) ==
    IF list = <<>> THEN <<>>
    ELSE IF Len(list) = 1 THEN list[1]
    ELSE list[1] \o sep \o join_with(sep, Tail(list))

\* '\n' and ' ; '
blank_line == <<"\n">>

field_sep == <<" ", ";", " ">>

\* the lines of data that enter the revisions: line.count(' ; ') > 1
with_split(data) == { i \in 1..Len(data) : count(data[i], field_sep) > 1 }

\* line[:-1].split(' ; ')
fields(line) == str_split(UpTo(line, Len(line) - 1), field_sep, <<>>)

\* the dict `splits` after the first loop: for every orth the entry of the
\* last line that has it
splits_of(data) ==
    [o \in { fields(data[i])[1] : i \in with_split(data) } |->
        LET i == CHOOSE i \in with_split(data) :
                    /\ fields(data[i])[1] = o
                    /\ \A h \in with_split(data) : fields(data[h])[1] = o => h <= i
        IN  [i |-> i, line |-> UpTo(data[i], Len(data[i]) - 1),
             split |-> fields(data[i])[3]]]

\* the second loop for one entry of `splits`: the line that replaces
\* data[i], or data[i] when no word of the segmentation is a key
revised(entries, entry, old) ==
    LET split == str_split(entry.split, <<"=">>, <<>>)
        altered == \E j \in 1..Len(split) : split[j] \in DOMAIN entries
        further == [j \in 1..Len(split) |->
                       IF split[j] \in DOMAIN entries THEN entries[split[j]].split
                       ELSE split[j]]
    IN  IF altered
        THEN entry.line \o field_sep \o join_with(<<"=">>, further) \o <<"\n">>
        ELSE old

\* the revisions of clean_data on the sorted data
revisions(data) ==
    [i \in 1..Len(data) |->
        IF \E o \in DOMAIN splits_of(data) : splits_of(data)[o].i = i
        THEN revised(splits_of(data), splits_of(data)[fields(data[i])[1]], data[i])
        ELSE data[i]]

\* data.remove('\n') on the sorted list, which holds '\n' once
without_blank(data) == SelectSeq(data, LAMBDA line : line # blank_line)

\* clean_data(data_fn), given the lines of the file: the lines written to
\* '<data_fn>.cleaned', or the exception raised before the file is opened
clean_data(lines) ==
    LET data == sorted({lines[k] : k \in 1..Len(lines)})
    IN  IF \A k \in 1..Len(data) : data[k] # blank_line
        THEN Raise("ValueError", "list.remove(x): x not in list", <<>>)
        ELSE IF \E i \in with_split(without_blank(data)) :
                    Len(fields(without_blank(data)[i])) # 3
        THEN Raise("ValueError", "too many values to unpack (expected 3)", <<>>)
        ELSE Ok(revisions(without_blank(data)))

\* the largest number of lines of a data file
MaxLines == 3

\* lines of a data file: a blank line, simplex words, compounds, a compound
\* of a compound, and a line that carries a revision
DataLines ==
    { blank_line,
      <<"b"," ",";"," ","N","\n">>,
      <<"a"," ",";"," ","N"," ",";"," ","a","\n">>,
      <<"a","b"," ",";"," ","N"," ",";"," ","a","=","b","\n">>,
      <<"a","b","b"," ",";"," ","N"," ",";"," ","a","b","=","b","\n">>,
      <<"b","a"," ",";"," ","N"," ",";"," ","b","=","a"," ",";"," ","b","=","a","\n">> }

\* the files on disk: the data file alone
InitClean ==
    /\ files \in { [n \in {"data"} |-> lines] : lines \in SeqsUpTo(DataLines, MaxLines) }
    /\ frame = NoFrame
    /\ instance = Instance
    /\ pipes = <<>>
    /\ orth = <<>>
    /\ compound = <<>>
    /\ morphs = <<>>
    /\ op = "init"
    /\ res = NoResult
    /\ splits = <<>>
    /\ declensions = <<>>
    /\ log = <<>>

\* clean_data('data'): the file 'data.cleaned' is written when no exception
\* is raised
CleanData ==
    /\ op = "init"
    /\ op' = "clean_data"
    /\ \E r \in {clean_data(files["data"])} :
          /\ res' = IF r.kind = "ok" THEN Ok(<<>>) ELSE r
          /\ files' = IF r.kind = "ok"
                      THEN [n \in {"data", "data.cleaned"} |->
                               IF n = "data" THEN files["data"] ELSE r.val]
                      ELSE files
    /\ UNCHANGED <<orth, compound, morphs, frame, instance, pipes>>
    /\ UNCHANGED lemma_vars

NextClean == CleanData

SpecClean == InitClean /\ [][NextClean]_vars

\* the line of the output that stands for the line of the input: the line
\* itself, or the line with a revision appended
stands_for(out_line, line) ==
    \/ out_line = line
    \/ StartsWith(out_line, UpTo(line, Len(line) - 1) \o field_sep)

\* C30: for every data file clean_data writes '<data_fn>.cleaned' with the
\* lines of the input, without blank lines and without duplicates, in
\* alphabetical order, also for an input without a blank line and with the
\* revisions appended to the lines.
C30_CleanedFile ==
    op = "clean_data"
        => /\ "data.cleaned" \in DOMAIN files
           /\ LET out == files["data.cleaned"]
                  kept == {files["data"][k] : k \in 1..Len(files["data"])} \ {blank_line}
              IN  /\ \A k \in 1..Len(out) : out[k] # blank_line
                  /\ \A k \in 1..(Len(out) - 1) : Less(out[k], out[k + 1])
                  /\ Len(out) = Cardinality(kept)
                  /\ \A line \in kept : \E k \in 1..Len(out) : stands_for(out[k], line)

====
